---- MODULE Spec2Model ----
(***************************************************************************)
(* Model of roblox-backend.js: the in-memory cache (SimpleCache), the      *)
(* request queue (RobloxAPIQueue), the aggregation function                *)
(* (fetchRobloxUserData) and the two /api/roblox/:username handlers.       *)
(*                                                                         *)
(* Time is counted in ticks.  One step of the model is one macrotask of    *)
(* the Node.js event loop together with every promise continuation         *)
(* (microtask) it makes runnable: an HTTP request arriving, an upstream    *)
(* response arriving, a timer firing.                                      *)
(***************************************************************************)
EXTENDS Integers, Sequences, FiniteSets, TLC

VARIABLES now, cache, queue, processing, loops, jobs, batchLog

vars == <<now, cache, queue, processing, loops, jobs, batchLog>>

----------------------------------------------------------------------------
(* Bounds of the model *)

MaxJobs == 2
MaxTime == 2
QueueJobs == 5
QueueTime == 3
BurstJobs == 7
BurstTime == 2
MaxAgeTicks == 801
LiveJobs == 3
LiveTime == 1
PurgeJobs == 2
PurgeTime == 1

(* Program constants, in ticks *)

batchSize == 3
delayBetweenBatches == 1
defaultTTL == 1
msPerDay == 2

----------------------------------------------------------------------------
(* JavaScript values.  Every value carries its type tag; objects are       *)
(* records of values, arrays are sequences of values.                      *)

Undefined == [t |-> "undefined"]
Null == [t |-> "null"]
Num(n) == [t |-> "number", n |-> n]
Str(s) == [t |-> "string", s |-> s]
Bool(b) == [t |-> "boolean", b |-> b]
Arr(a) == [t |-> "array", a |-> a]
Obj(o) == [t |-> "object", o |-> o]
EmptyObj == [t |-> "object"]

(* A TypeError raised while an expression is evaluated; it propagates      *)
(* through every operator below.                                           *)
TypeError == [t |-> "TypeError"]

IsThrow(v) == v.t = "TypeError"

Fields(v) == IF v.t = "object" /\ "o" \in DOMAIN v THEN DOMAIN v.o ELSE {}

(* v.f *)
Prop(v, f) ==
  CASE v.t \in {"TypeError", "undefined", "null"} -> TypeError
    [] v.t = "object" -> IF f \in Fields(v) THEN v.o[f] ELSE Undefined
    [] v.t = "array" /\ f = "length" -> Num(Len(v.a))
    [] v.t = "string" /\ f = "length" -> Num(Len(v.s))
    [] OTHER -> Undefined

(* v?.f *)
OptProp(v, f) == IF v.t \in {"undefined", "null"} THEN Undefined ELSE Prop(v, f)

(* v[i] for a number i *)
Index(v, i) ==
  CASE v.t \in {"TypeError", "undefined", "null"} -> TypeError
    [] v.t = "array" -> IF i.t = "number" /\ i.n >= 0 /\ i.n < Len(v.a)
                        THEN v.a[i.n + 1] ELSE Undefined
    [] OTHER -> Undefined

Truthy(v) ==
  CASE v.t \in {"undefined", "null"} -> FALSE
    [] v.t = "number" -> v.n # 0
    [] v.t = "string" -> v.s # ""
    [] v.t = "boolean" -> v.b
    [] OTHER -> TRUE

(* a || b *)
Or(a, b) == IF IsThrow(a) THEN a ELSE IF Truthy(a) THEN a ELSE b

(* v.map(h => h.name) *)
MapName(v) ==
  CASE v.t \in {"TypeError", "undefined", "null"} -> TypeError
    [] v.t = "array" ->
         IF \E i \in 1..Len(v.a) : IsThrow(Prop(v.a[i], "name"))
         THEN TypeError
         ELSE Arr([i \in 1..Len(v.a) |-> Prop(v.a[i], "name")])
    [] OTHER -> TypeError

ToLowerCase(s) == CASE s = "Bob" -> "bob" [] s = "AMY" -> "amy" [] OTHER -> s

----------------------------------------------------------------------------
(* SimpleCache: a Map from key to {value, expiry} *)

CacheSet(c, key, value, t) ==
  [k \in DOMAIN c \cup {key} |->
     IF k = key THEN [value |-> value, expiry |-> t + defaultTTL] ELSE c[k]]

CacheDelete(c, key) == [k \in DOMAIN c \ {key} |-> c[k]]

IsExpired(item, t) == t > item.expiry

(* CacheGet that reports an expired entry absent but leaves it in the map  *)
CacheGetNoEvict(c, key, t) ==
  IF key \notin DOMAIN c THEN [value |-> Null, cache |-> c, branch |-> "absent"]
  ELSE IF IsExpired(c[key], t) THEN [value |-> Null, cache |-> c, branch |-> "expired"]
  ELSE [value |-> c[key].value, cache |-> c, branch |-> "stored"]

(* get(key): the value returned, the cache it leaves and the branch taken *)
CacheGet(c, key, t) ==
  IF key \notin DOMAIN c THEN [value |-> Null, cache |-> c, branch |-> "absent"]
  ELSE IF IsExpired(c[key], t)
  THEN [value |-> Null, cache |-> CacheDelete(c, key), branch |-> "expired"]
  ELSE [value |-> c[key].value, cache |-> c, branch |-> "stored"]

CacheDel(c, key) == [deleted |-> key \in DOMAIN c, cache |-> CacheDelete(c, key)]

CacheKeys(c) == DOMAIN c

CacheClear(c) == [count |-> Cardinality(DOMAIN c), cache |-> << >>]

----------------------------------------------------------------------------
(* Account age *)

calculateAgeDays(createdAt, t) == (t - createdAt) \div msPerDay

calculateAccountAge(createdAt, t) ==
  LET diffDays == (t - createdAt) \div msPerDay
      years == diffDays \div 365
      months == (diffDays % 365) \div 30
      days == diffDays % 30
  IN  IF years > 0
      THEN ToString(years) \o " years, " \o ToString(months) \o " months, "
             \o ToString(days) \o " days"
      ELSE IF months > 0
      THEN ToString(months) \o " months, " \o ToString(days) \o " days"
      ELSE ToString(days) \o " days"

----------------------------------------------------------------------------
(* Upstream responses: what axios delivers for one call.  A settled call   *)
(* is either rejected with an error or fulfilled with a response whose     *)
(* data is the parsed body.                                                *)

Error(name, message, code, status) ==
  [name |-> name, message |-> message, code |-> code, status |-> status]

UserNotFoundError == Error("Error", "User not found", "", 0)
TimeoutError == Error("AxiosError", "timeout exceeded", "ECONNABORTED", 0)
HttpError(status) == Error("AxiosError", "Request failed", "ERR_BAD_RESPONSE", status)
ThrownTypeError == Error("TypeError", "Cannot read properties of undefined", "", 0)

Rejected(err) == [status |-> "rejected", reason |-> err]
Fulfilled(body) == [status |-> "fulfilled", value |-> Obj([data |-> body])]

(* An ISO date string for the instant i, and the two Date conversions *)
IsoString(i) == [t |-> "string", s |-> "iso", iso |-> i]
ParseDate(v) == v.iso
toLocaleDateString(i) == Str("day " \o ToString(i \div msPerDay))

BasicUsers ==
  { Obj([id |-> Num(7), name |-> Str("Bob"), displayName |-> Str("Bobby")]),
    Obj([id |-> Num(7), name |-> Str("Bob")]) }

LookupAll ==
  { Rejected(TimeoutError), Rejected(HttpError(503)), Rejected(HttpError(429)),
    Fulfilled(Obj([data |-> Arr(<< >>)])), Fulfilled(EmptyObj) }
  \cup { Fulfilled(Obj([data |-> Arr(<<b>>)])) : b \in BasicUsers }

UserInfoAll ==
  { Rejected(TimeoutError),
    Fulfilled(Obj([created |-> IsoString(-3), isBanned |-> Bool(FALSE),
                   hasVerifiedBadge |-> Bool(TRUE), description |-> Str("hi")])),
    Fulfilled(Obj([created |-> IsoString(-3), isBanned |-> Bool(TRUE),
                   hasVerifiedBadge |-> Bool(FALSE), description |-> Str("")])),
    Fulfilled(EmptyObj) }

CountAll ==
  { Rejected(TimeoutError), Fulfilled(Obj([count |-> Num(5)])), Fulfilled(EmptyObj) }

GroupsAll ==
  { Rejected(HttpError(503)),
    Fulfilled(Obj([data |-> Arr(<<EmptyObj, EmptyObj>>)])),
    Fulfilled(EmptyObj) }

AvatarAll ==
  { Rejected(TimeoutError),
    Fulfilled(Obj([data |-> Arr(<<Obj([imageUrl |-> Str("https://tr.rbxcdn.com/a.png")])>>)])),
    Fulfilled(Obj([data |-> Arr(<<EmptyObj>>)])),
    Fulfilled(Obj([data |-> Arr(<< >>)])),
    Fulfilled(EmptyObj) }

HistoryAll ==
  { Rejected(TimeoutError),
    Fulfilled(Obj([data |-> Arr(<<Obj([name |-> Str("Bob1")]), Obj([name |-> Str("Bob2")])>>)])),
    Fulfilled(EmptyObj) }

PresenceCodes == {-1, 0, 1, 2, 3, 4}

PresenceAll ==
  { Rejected(TimeoutError),
    Fulfilled(Obj([userPresences |-> Arr(<<EmptyObj>>)])),
    Fulfilled(Obj([userPresences |-> Arr(<< >>)])),
    Fulfilled(EmptyObj) }
  \cup { Fulfilled(Obj([userPresences |-> Arr(<<Obj([userPresenceType |-> Num(k)])>>)]))
         : k \in PresenceCodes }

Group1All == UserInfoAll \X CountAll \X CountAll
Group2All == CountAll \X GroupsAll \X AvatarAll \X HistoryAll \X PresenceAll

----------------------------------------------------------------------------
(* fetchRobloxUserData *)

CacheKey(username) == "user:" \o ToLowerCase(username)

PlaceholderAvatar == Str("https://via.placeholder.com/150")

(* res.status === 'fulfilled' ? res.value.data : dflt *)
DataOr(res, dflt) ==
  IF res.status = "fulfilled" THEN Prop(res.value, "data") ELSE dflt

(* CountOf without the default for a rejected call *)
CountOfNoDefault(res) ==
  IF res.status = "fulfilled" THEN Prop(Prop(res.value, "data"), "count") ELSE Undefined

(* res.status === 'fulfilled' ? res.value.data.count : 0 *)
CountOf(res) ==
  IF res.status = "fulfilled" THEN Prop(Prop(res.value, "data"), "count") ELSE Num(0)

(* res.status === 'fulfilled' ? res.value.data.data.length : 0 *)
GroupsCountOf(res) ==
  IF res.status = "fulfilled"
  THEN Prop(Prop(Prop(res.value, "data"), "data"), "length")
  ELSE Num(0)

(* res.status === 'fulfilled' ? (res.value.data.data[0]?.imageUrl || placeholder) : placeholder *)
AvatarOf(res) ==
  IF res.status = "fulfilled"
  THEN LET first == Index(Prop(Prop(res.value, "data"), "data"), Num(0))
       IN  IF IsThrow(first) THEN TypeError
           ELSE Or(OptProp(first, "imageUrl"), PlaceholderAvatar)
  ELSE PlaceholderAvatar

(* res.status === 'fulfilled' ? res.value.data.data.map(h => h.name) : [] *)
PreviousUsernamesOf(res) ==
  IF res.status = "fulfilled"
  THEN MapName(Prop(Prop(res.value, "data"), "data"))
  ELSE Arr(<< >>)

PresenceNames == Arr(<<Str("Offline"), Str("Online"), Str("In Game"), Str("In Studio")>>)

(* PresenceName without the default for a code outside the table *)
PresenceNameNoDefault(code) == Index(PresenceNames, code)

(* ['Offline', 'Online', 'In Game', 'In Studio'][code] || 'Unknown' *)
PresenceName(code) == Or(Index(PresenceNames, code), Str("Unknown"))

OnlineStatusOf(res) ==
  IF res.status = "fulfilled"
  THEN LET first == Index(Prop(Prop(res.value, "data"), "userPresences"), Num(0))
       IN  IF IsThrow(first) THEN TypeError
           ELSE IF Truthy(first) THEN PresenceName(Prop(first, "userPresenceType"))
           ELSE Str("Unknown")
  ELSE Str("Unknown")

ActiveStatusOf(userInfo) ==
  IF Truthy(Prop(userInfo, "isBanned")) THEN Str("Banned") ELSE Str("Active")

ProfileLink(userId) ==
  IF userId.t = "number"
  THEN Str("https://www.roblox.com/users/" \o ToString(userId.n) \o "/profile")
  ELSE Str("https://www.roblox.com/users/undefined/profile")

(* Lines 269-310: the record built from the settled calls, as a record of  *)
(* JavaScript values; a field is TypeError when evaluating it throws.      *)
ResultFields(username, basicUser, g1, g2, t) ==
  LET userInfo == DataOr(g1[1], EmptyObj)
      userId == Prop(basicUser, "id")
      created == Prop(userInfo, "created")
  IN  [ username |-> Or(Prop(basicUser, "name"), Str(username)),
        display_name |-> Or(Prop(basicUser, "displayName"), Str("N/A")),
        estimated_creation_date |->
          IF Truthy(created) THEN toLocaleDateString(ParseDate(created)) ELSE Str("N/A"),
        account_age |->
          IF Truthy(created) THEN Str(calculateAccountAge(ParseDate(created), t))
          ELSE Str("N/A"),
        age_days |->
          IF Truthy(created) THEN Num(calculateAgeDays(ParseDate(created), t)) ELSE Num(0),
        followers |-> CountOf(g1[2]),
        followings |-> CountOf(g1[3]),
        friends |-> CountOf(g2[1]),
        groups_count |-> GroupsCountOf(g2[2]),
        verified |-> Or(Prop(userInfo, "hasVerifiedBadge"), Bool(FALSE)),
        description |-> Or(Prop(userInfo, "description"), Str("N/A")),
        user_id |-> userId,
        avatar |-> AvatarOf(g2[3]),
        previous_usernames |-> PreviousUsernamesOf(g2[4]),
        active_status |-> ActiveStatusOf(userInfo),
        online_status |-> OnlineStatusOf(g2[5]),
        profile_link |-> ProfileLink(userId),
        last_updated |-> IsoString(t) ]

ResultFieldNames ==
  { "username", "display_name", "estimated_creation_date", "account_age", "age_days",
    "followers", "followings", "friends", "groups_count", "verified", "description",
    "user_id", "avatar", "previous_usernames", "active_status", "online_status",
    "profile_link", "last_updated" }

(* How a call of fetchRobloxUserData ends *)
Returns(value) == [kind |-> "return", value |-> value]
Throws(err) == [kind |-> "throw", error |-> err]

(* ResolveIdentity without the test for an empty list of matches *)
ResolveIdentityNoEmptyCheck(res) ==
  IF res.status = "rejected" THEN Throws(res.reason)
  ELSE LET users == Prop(Prop(res.value, "data"), "data")
           basicUser == Index(users, Num(0))
       IN  IF IsThrow(Prop(basicUser, "id")) THEN Throws(ThrownTypeError)
           ELSE Returns(basicUser)

(* Lines 213-217: the continuation of the identity lookup.  It either      *)
(* throws or yields the first match.                                       *)
ResolveIdentity(res) ==
  IF res.status = "rejected" THEN Throws(res.reason)
  ELSE LET users == Prop(Prop(res.value, "data"), "data")
           len == Prop(users, "length")
           basicUser == Index(users, Num(0))
       IN  IF IsThrow(len) THEN Throws(ThrownTypeError)
           ELSE IF len = Num(0) THEN Throws(UserNotFoundError)
           ELSE IF IsThrow(Prop(basicUser, "id")) THEN Throws(ThrownTypeError)
           ELSE Returns(basicUser)

(* Lines 269-314: extraction and the record; throws when a field throws *)
BuildResult(username, basicUser, g1, g2, t) ==
  LET fields == ResultFields(username, basicUser, g1, g2, t)
  IN  IF \E f \in ResultFieldNames : IsThrow(fields[f])
      THEN Throws(ThrownTypeError)
      ELSE Returns(Obj(fields))

(* Lines 351-373 and 394-415: the status the HTTP handler answers with *)
HandlerStatus(end) ==
  IF end.kind = "return" THEN 200
  ELSE IF end.error.message = "User not found" THEN 404
  ELSE IF end.error.code = "ECONNABORTED" \/ end.error.status = 429 THEN 429
  ELSE IF end.error.status # 0 THEN end.error.status
  ELSE 500

----------------------------------------------------------------------------
(* RobloxAPIQueue.  The operators below transform the program state s, a   *)
(* record of the variables other than the clock, at time t.                *)

State == [cache |-> cache, queue |-> queue, processing |-> processing,
          loops |-> loops, jobs |-> jobs, batchLog |-> batchLog]

Becomes(s) ==
  /\ cache' = s.cache
  /\ queue' = s.queue
  /\ processing' = s.processing
  /\ loops' = s.loops
  /\ jobs' = s.jobs
  /\ batchLog' = s.batchLog

Min(a, b) == IF a < b THEN a ELSE b

RemoveAt(seq, i) == [k \in 1..(Len(seq) - 1) |-> IF k < i THEN seq[k] ELSE seq[k + 1]]

SeqRange(seq) == {seq[k] : k \in 1..Len(seq)}

Settled(job) == job.pc \in {"resolved", "rejected"}

(* A request as the handler hands it to add(): not yet started.  got is   *)
(* the branch its cache lookup took, calls the upstream calls it issued,   *)
(* lookup, g1 and g2 the responses it received, end and http its outcome.  *)
NewJob(username) ==
  [username |-> username, pc |-> "queued", got |-> "", calls |-> {},
   lookup |-> << >>, basicUser |-> Undefined, g1 |-> << >>, g2 |-> << >>,
   end |-> Returns(Undefined), http |-> 0, purged |-> FALSE]

(* Lines 149-156 with lines 349-373: the request has ended; its promise is *)
(* resolved or rejected and the handler answers.                           *)
SettleJob(job, end) ==
  [job EXCEPT !.pc = IF end.kind = "return" THEN "resolved" ELSE "rejected",
              !.end = end, !.http = HandlerStatus(end)]

(* Lines 149-151 and 189-211: executeRequest calls the request, which runs *)
(* up to its first await: the cache lookup, then the identity lookup is    *)
(* issued.                                                                 *)
StartJob(s, j, t) ==
  LET job == s.jobs[j]
      got == CacheGet(s.cache, CacheKey(job.username), t)
  IN  IF Truthy(got.value)
      THEN [s EXCEPT !.cache = got.cache,
                     !.jobs[j] = SettleJob([job EXCEPT !.got = got.branch],
                                           Returns(got.value))]
      ELSE [s EXCEPT !.cache = got.cache,
                     !.jobs[j] = [job EXCEPT !.pc = "lookup", !.got = got.branch,
                                             !.calls = {"lookup"}]]

(* batch.map(item => this.executeRequest(item)) *)
RECURSIVE StartBatch(_, _, _)
StartBatch(s, batch, t) ==
  IF batch = << >> THEN s
  ELSE StartBatch(StartJob(s, Head(batch), t), Tail(batch), t)

(* AfterBatch with the flag cleared before the delay instead of after the   *)
(* loop                                                                    *)
AfterBatchEarlyReset(s, i, t) ==
  LET e == s.loops[i].entry
      logged == [s EXCEPT !.batchLog[e].settled = t, !.processing = FALSE]
  IN  IF Len(s.queue) > 0
      THEN [logged EXCEPT !.loops[i] = [pc |-> "delay", batch |-> << >>, entry |-> e,
                                         timer |-> t + delayBetweenBatches]]
      ELSE [logged EXCEPT !.loops = RemoveAt(s.loops, i)]

(* AfterBatch that leaves the flag set when the loop ends *)
AfterBatchFlagStuck(s, i, t) ==
  LET e == s.loops[i].entry
      logged == [s EXCEPT !.batchLog[e].settled = t]
  IN  IF Len(s.queue) > 0
      THEN [logged EXCEPT !.loops[i] = [pc |-> "delay", batch |-> << >>, entry |-> e,
                                         timer |-> t + delayBetweenBatches]]
      ELSE [logged EXCEPT !.loops = RemoveAt(s.loops, i)]

(* Lines 141-146: the loop i resumes after its batch has settled *)
AfterBatch(s, i, t) ==
  LET e == s.loops[i].entry
      logged == [s EXCEPT !.batchLog[e].settled = t]
  IN  IF Len(s.queue) > 0
      THEN [logged EXCEPT !.loops[i] = [pc |-> "delay", batch |-> << >>, entry |-> e,
                                         timer |-> t + delayBetweenBatches]]
      ELSE [logged EXCEPT !.processing = FALSE, !.loops = RemoveAt(s.loops, i)]

(* RunLoop taking its batch from the tail of the queue (pop instead of     *)
(* splice(0, n))                                                           *)
RunLoopFromTail(s, i, t) ==
  IF Len(s.queue) > 0
  THEN LET n == Min(batchSize, Len(s.queue))
           batch == SubSeq(s.queue, Len(s.queue) - n + 1, Len(s.queue))
           e == Len(s.batchLog) + 1
           taken == [s EXCEPT !.queue = SubSeq(s.queue, 1, Len(s.queue) - n),
                              !.loops[i] = [pc |-> "batch", batch |-> batch,
                                            entry |-> e, timer |-> 0],
                              !.batchLog = Append(s.batchLog,
                                 [jobs |-> batch, start |-> t, settled |-> -1])]
           started == StartBatch(taken, batch, t)
       IN  IF \A j \in SeqRange(batch) : Settled(started.jobs[j])
           THEN AfterBatch(started, i, t)
           ELSE started
  ELSE [s EXCEPT !.processing = FALSE, !.loops = RemoveAt(s.loops, i)]

(* Lines 134-139: the loop i tests the queue and takes its next batch *)
RunLoop(s, i, t) ==
  IF Len(s.queue) > 0
  THEN LET n == Min(batchSize, Len(s.queue))
           batch == SubSeq(s.queue, 1, n)
           e == Len(s.batchLog) + 1
           taken == [s EXCEPT !.queue = SubSeq(s.queue, n + 1, Len(s.queue)),
                              !.loops[i] = [pc |-> "batch", batch |-> batch,
                                            entry |-> e, timer |-> 0],
                              !.batchLog = Append(s.batchLog,
                                 [jobs |-> batch, start |-> t, settled |-> -1])]
           started == StartBatch(taken, batch, t)
       IN  IF \A j \in SeqRange(batch) : Settled(started.jobs[j])
           THEN AfterBatch(started, i, t)
           ELSE started
  ELSE [s EXCEPT !.processing = FALSE, !.loops = RemoveAt(s.loops, i)]

(* Lines 129-132: process() *)
Process(s, t) ==
  IF s.processing THEN s
  ELSE RunLoop([s EXCEPT !.processing = TRUE,
                         !.loops = Append(s.loops, [pc |-> "start", batch |-> << >>,
                                                    entry |-> 0, timer |-> 0])],
               Len(s.loops) + 1, t)

(* Lines 120-127: add(request) *)
QueueAdd(s, username, t) ==
  LET j == Len(s.jobs) + 1
      pushed == [s EXCEPT !.jobs = Append(s.jobs, NewJob(username)),
                          !.queue = Append(s.queue, j)]
  IN  IF ~pushed.processing THEN Process(pushed, t) ELSE pushed

(* JobEnds for a batch awaited with Promise.all and one catch: a request   *)
(* that throws rejects every request of its batch that is still running.   *)
JobEndsFailsBatch(s, j, end, t) ==
  LET mine == {i \in 1..Len(s.loops) :
                 s.loops[i].pc = "batch" /\ j \in SeqRange(s.loops[i].batch)}
      batch == IF mine = {} THEN {j}
               ELSE SeqRange(s.loops[CHOOSE i \in mine : TRUE].batch)
      s1 == [s EXCEPT !.jobs =
               [k \in 1..Len(s.jobs) |->
                  IF k = j \/ (end.kind = "throw" /\ k \in batch /\ ~Settled(s.jobs[k]))
                  THEN SettleJob(s.jobs[k], end) ELSE s.jobs[k]]]
  IN  IF mine = {} \/ \E k \in batch : ~Settled(s1.jobs[k]) THEN s1
      ELSE AfterBatch(s1, CHOOSE i \in mine : TRUE, t)

(* The request j has ended: its promise settles, and when it was the last  *)
(* of its batch the loop that awaits the batch resumes.                    *)
JobEnds(s, j, end, t) ==
  LET s1 == [s EXCEPT !.jobs[j] = SettleJob(s.jobs[j], end)]
      waiting == {i \in 1..Len(s1.loops) :
                    /\ s1.loops[i].pc = "batch"
                    /\ j \in SeqRange(s1.loops[i].batch)
                    /\ \A k \in SeqRange(s1.loops[i].batch) : Settled(s1.jobs[k])}
  IN  IF waiting = {} THEN s1 ELSE AfterBatch(s1, CHOOSE i \in waiting : TRUE, t)

----------------------------------------------------------------------------
(* The requests and upstream responses the model explores *)

Usernames == {"Bob", "amy"}

(* What the upstream knows about a username *)
UpstreamUser(username) ==
  IF ToLowerCase(username) = "bob"
  THEN Obj([id |-> Num(7), name |-> Str("Bob"), displayName |-> Str("Bobby")])
  ELSE Obj([id |-> Num(9), name |-> Str("amy")])

LookupSome(username) ==
  { Rejected(TimeoutError), Fulfilled(Obj([data |-> Arr(<< >>)])),
    Fulfilled(Obj([data |-> Arr(<<UpstreamUser(username)>>)])) }

UserInfoOk ==
  Fulfilled(Obj([created |-> IsoString(-3), isBanned |-> Bool(FALSE),
                 hasVerifiedBadge |-> Bool(TRUE), description |-> Str("hi")]))
CountOk == Fulfilled(Obj([count |-> Num(5)]))
GroupsOk == Fulfilled(Obj([data |-> Arr(<<EmptyObj, EmptyObj>>)]))
AvatarOk ==
  Fulfilled(Obj([data |-> Arr(<<Obj([imageUrl |-> Str("https://tr.rbxcdn.com/a.png")])>>)]))
HistoryOk ==
  Fulfilled(Obj([data |-> Arr(<<Obj([name |-> Str("Bob1")]), Obj([name |-> Str("Bob2")])>>)]))
PresenceOk == Fulfilled(Obj([userPresences |-> Arr(<<Obj([userPresenceType |-> Num(1)])>>)]))

Group1Some == { <<UserInfoOk, CountOk, CountOk>> }

Group2Some ==
  { <<CountOk, GroupsOk, AvatarOk, HistoryOk, PresenceOk>>,
    <<CountOk, GroupsOk, AvatarOk, HistoryOk, Rejected(TimeoutError)>>,
    <<CountOk, Fulfilled(EmptyObj), AvatarOk, HistoryOk, PresenceOk>> }

Group1Calls == {"userInfo", "followers", "followings"}
Group2Calls == {"friends", "groups", "avatar", "history", "presence"}

----------------------------------------------------------------------------
(* Actions *)

(* Lines 335-349 and 378-392: a request for username arrives and is queued *)
HandleRequest(username, max) ==
  /\ Len(jobs) < max
  /\ Becomes(QueueAdd(State, username, now))
  /\ UNCHANGED now

(* LookupSettles that stores the error under the key of the request *)
LookupSettlesCachesError(j, res) ==
  /\ jobs[j].pc = "lookup"
  /\ LET id == ResolveIdentity(res)
     IN  IF id.kind = "throw"
         THEN Becomes(JobEnds([State EXCEPT
                                 !.jobs[j].lookup = <<res>>,
                                 !.cache = CacheSet(cache, CacheKey(jobs[j].username),
                                                    Obj([error |-> Str(id.error.message)]),
                                                    now)],
                              j, id, now))
         ELSE /\ jobs' = [jobs EXCEPT ![j].pc = "group1",
                                      ![j].lookup = <<res>>,
                                      ![j].basicUser = id.value,
                                      ![j].calls = @ \cup Group1Calls]
              /\ UNCHANGED <<cache, queue, processing, loops, batchLog>>
  /\ UNCHANGED now

(* Lines 202-217: the identity lookup of request j settles with res; the   *)
(* request throws, or issues the first group of calls.                     *)
LookupSettles(j, res) ==
  /\ jobs[j].pc = "lookup"
  /\ LET id == ResolveIdentity(res)
     IN  IF id.kind = "throw"
         THEN Becomes(JobEnds([State EXCEPT !.jobs[j].lookup = <<res>>], j, id, now))
         ELSE /\ jobs' = [jobs EXCEPT ![j].pc = "group1",
                                      ![j].lookup = <<res>>,
                                      ![j].basicUser = id.value,
                                      ![j].calls = @ \cup Group1Calls]
              /\ UNCHANGED <<cache, queue, processing, loops, batchLog>>
  /\ UNCHANGED now

(* Lines 220-267: the first group has settled with g; the second group is  *)
(* issued.                                                                 *)
Group1Settles(j, g) ==
  /\ jobs[j].pc = "group1"
  /\ jobs' = [jobs EXCEPT ![j].pc = "group2", ![j].g1 = g,
                          ![j].calls = @ \cup Group2Calls]
  /\ UNCHANGED <<now, cache, queue, processing, loops, batchLog>>

(* Lines 269-315: the second group has settled with g; the record is       *)
(* built, stored in the cache and returned.                                *)
Group2Settles(j, g) ==
  /\ jobs[j].pc = "group2"
  /\ LET job == jobs[j]
         end == BuildResult(job.username, job.basicUser, job.g1, g, now)
         seen == [State EXCEPT !.jobs[j].g2 = g]
         stored == IF end.kind = "return"
                   THEN [seen EXCEPT !.cache =
                           CacheSet(cache, CacheKey(job.username), end.value, now)]
                   ELSE seen
     IN  Becomes(JobEnds(stored, j, end, now))
  /\ UNCHANGED now

(* Line 142: the delay timer of loop i fires *)
TimerFires(i) ==
  /\ i \in 1..Len(loops)
  /\ loops[i].pc = "delay"
  /\ now >= loops[i].timer
  /\ Becomes(RunLoop(State, i, now))
  /\ UNCHANGED now

(* The requests in flight when their key was deleted or cleared are        *)
(* marked; the mark is an observation, the program keeps no such record.   *)
MarkPurged(keys) ==
  [j \in 1..Len(jobs) |->
     IF jobs[j].pc \in {"lookup", "group1", "group2"}
          /\ CacheKey(jobs[j].username) \in keys
     THEN [jobs[j] EXCEPT !.purged = TRUE] ELSE jobs[j]]

(* Lines 446-452: POST /cache/clear *)
ClearCache ==
  /\ cache' = CacheClear(cache).cache
  /\ UNCHANGED <<now, queue, processing, loops, jobs, batchLog>>

(* Lines 455-465: DELETE /cache/user/:username *)
DeleteUserCache(username) ==
  /\ cache' = CacheDel(cache, CacheKey(username)).cache
  /\ UNCHANGED <<now, queue, processing, loops, jobs, batchLog>>

(* POST /cache/clear, observed: the requests in flight are marked *)
ClearCacheObserved ==
  /\ cache' = CacheClear(cache).cache
  /\ jobs' = MarkPurged({CacheKey(jobs[j].username) : j \in 1..Len(jobs)})
  /\ UNCHANGED <<now, queue, processing, loops, batchLog>>

(* DELETE /cache/user/:username, observed: the requests in flight for the  *)
(* key are marked                                                          *)
DeleteUserCacheObserved(username) ==
  /\ cache' = CacheDel(cache, CacheKey(username)).cache
  /\ jobs' = MarkPurged({CacheKey(username)})
  /\ UNCHANGED <<now, queue, processing, loops, batchLog>>

(* Time passes *)
Tick(max) ==
  /\ now < max
  /\ now' = now + 1
  /\ UNCHANGED <<cache, queue, processing, loops, jobs, batchLog>>

Init ==
  /\ now = 0
  /\ cache = << >>
  /\ queue = << >>
  /\ processing = FALSE
  /\ loops = << >>
  /\ jobs = << >>
  /\ batchLog = << >>

JobIds == 1..Len(jobs)

(* The cache under concurrent requests, operator deletes and expiry *)
Next ==
  \/ \E u \in Usernames : HandleRequest(u, MaxJobs)
  \/ \E j \in JobIds : \E res \in LookupSome(jobs[j].username) : LookupSettles(j, res)
  \/ \E j \in JobIds : \E g \in Group1Some : Group1Settles(j, g)
  \/ \E j \in JobIds : \E g \in Group2Some : Group2Settles(j, g)
  \/ \E i \in 1..Len(loops) : TimerFires(i)
  \/ ClearCache
  \/ \E u \in Usernames : DeleteUserCache(u)
  \/ Tick(MaxTime)

Spec == Init /\ [][Next]_vars

(* The queue under any arrival pattern of requests for one user *)
NextQueue ==
  \/ HandleRequest("bob", QueueJobs)
  \/ \E j \in JobIds : LookupSettles(j, Rejected(TimeoutError))
  \/ \E j \in JobIds :
       LookupSettles(j, Fulfilled(Obj([data |-> Arr(<<UpstreamUser("bob")>>)])))
  \/ \E j \in JobIds : Group1Settles(j, <<UserInfoOk, CountOk, CountOk>>)
  \/ \E j \in JobIds :
       Group2Settles(j, <<CountOk, GroupsOk, AvatarOk, HistoryOk, PresenceOk>>)
  \/ \E i \in 1..Len(loops) : TimerFires(i)
  \/ Tick(QueueTime)

SpecQueue == Init /\ [][NextQueue]_vars

(* A burst of requests: all of them arrive before any of them has settled *)
NextBurst ==
  \/ /\ \A j \in JobIds : ~Settled(jobs[j])
     /\ HandleRequest("bob", BurstJobs)
  \/ \E j \in JobIds : LookupSettles(j, Rejected(HttpError(503)))
  \/ \E j \in JobIds : LookupSettles(j, Fulfilled(Obj([data |-> Arr(<< >>)])))
  \/ \E i \in 1..Len(loops) : TimerFires(i)
  \/ Tick(BurstTime)

SpecBurst == Init /\ [][NextBurst]_vars

(* One request, every combination of upstream responses *)
NextAgg ==
  \/ HandleRequest("bob", 1)
  \/ \E j \in JobIds : \E res \in LookupAll : LookupSettles(j, res)
  \/ \E j \in JobIds : \E g \in Group1All : Group1Settles(j, g)
  \/ \E j \in JobIds : \E g \in Group2All : Group2Settles(j, g)

SpecAgg == Init /\ [][NextAgg]_vars

(* The queue when every upstream call settles and every timer fires: the   *)
(* clock does not stop while a delay timer is pending.  The identity       *)
(* lookups time out or find no match, so that every request ends after its *)
(* first call.                                                             *)
LiveClock ==
  IF \E i \in 1..Len(loops) : loops[i].pc = "delay" /\ loops[i].timer > now
  THEN now + 1 ELSE LiveTime

CallSettles ==
  \/ \E j \in JobIds : LookupSettles(j, Rejected(TimeoutError))
  \/ \E j \in JobIds : LookupSettles(j, Fulfilled(Obj([data |-> Arr(<< >>)])))

NextLive ==
  \/ HandleRequest("bob", LiveJobs)
  \/ CallSettles
  \/ \E i \in 1..Len(loops) : TimerFires(i)
  \/ Tick(LiveClock)

SpecLive ==
  /\ Init /\ [][NextLive]_vars
  /\ WF_vars(CallSettles)
  /\ WF_vars(\E i \in 1..Len(loops) : TimerFires(i))
  /\ WF_vars(Tick(LiveClock))

(* Operator deletes and clears while requests are in flight *)
NextPurge ==
  \/ \E u \in Usernames : HandleRequest(u, PurgeJobs)
  \/ \E j \in JobIds :
       LookupSettles(j, Fulfilled(Obj([data |-> Arr(<<UpstreamUser(jobs[j].username)>>)])))
  \/ \E j \in JobIds : Group1Settles(j, <<UserInfoOk, CountOk, CountOk>>)
  \/ \E j \in JobIds :
       Group2Settles(j, <<CountOk, GroupsOk, AvatarOk, HistoryOk, PresenceOk>>)
  \/ \E i \in 1..Len(loops) : TimerFires(i)
  \/ ClearCacheObserved
  \/ \E u \in Usernames : DeleteUserCacheObserved(u)
  \/ Tick(PurgeTime)

SpecPurge == Init /\ [][NextPurge]_vars

(* One request for an account created at any instant of the last           *)
(* MaxAgeTicks ticks                                                       *)
CreatedInstants == { 0 - i : i \in 0..MaxAgeTicks }

UserInfoCreated(created) ==
  Fulfilled(Obj([created |-> IsoString(created), isBanned |-> Bool(FALSE),
                 hasVerifiedBadge |-> Bool(TRUE), description |-> Str("hi")]))

NextAge ==
  \/ HandleRequest("bob", 1)
  \/ \E j \in JobIds :
       LookupSettles(j, Fulfilled(Obj([data |-> Arr(<<UpstreamUser("bob")>>)])))
  \/ \E j \in JobIds : \E c \in CreatedInstants :
       Group1Settles(j, <<UserInfoCreated(c), CountOk, CountOk>>)
  \/ \E j \in JobIds :
       Group2Settles(j, <<CountOk, GroupsOk, AvatarOk, HistoryOk, PresenceOk>>)

SpecAge == Init /\ [][NextAge]_vars

----------------------------------------------------------------------------
(* Observations used by the properties *)

Executing(job) == job.pc \in {"lookup", "group1", "group2"}

Started(job) == job.pc # "queued"

(* The jobs taken from the queue so far, batch by batch *)
RECURSIVE Flatten(_)
Flatten(log) == IF log = << >> THEN << >> ELSE Head(log).jobs \o Flatten(Tail(log))

(* The batch a started job was taken in *)
BatchOf(j) == CHOOSE e \in 1..Len(batchLog) : j \in SeqRange(batchLog[e].jobs)

StartOf(j) == batchLog[BatchOf(j)].start

----------------------------------------------------------------------------
(* C1: at any time at most one worker loop is active, the jobs that are    *)
(* executing all belong to the one batch of at most batchSize jobs that    *)
(* this loop awaits, and the queue only ever loses jobs to that loop: the  *)
(* jobs taken so far are exactly the batches the loop took, in order.      *)
C1_SingleWorkerSingleBatch ==
  /\ Len(loops) <= 1
  /\ processing <=> (Len(loops) = 1)
  /\ \A i \in 1..Len(loops) :
       /\ Len(loops[i].batch) <= batchSize
       /\ \A j \in JobIds : Executing(jobs[j]) =>
            loops[i].pc = "batch" /\ j \in SeqRange(loops[i].batch)
  /\ (loops = << >>) => \A j \in JobIds : ~Executing(jobs[j])
  /\ Flatten(batchLog) \o queue = [j \in JobIds |-> j]
  /\ \A j \in JobIds : Started(jobs[j]) <=> j \notin SeqRange(queue)

(* A full batch is executing while further requests have arrived *)
C1_Witness ==
  /\ Len(loops) = 1
  /\ loops[1].pc = "batch"
  /\ Len(loops[1].batch) = batchSize
  /\ \A j \in SeqRange(loops[1].batch) : Executing(jobs[j])
  /\ Len(queue) > 0

----------------------------------------------------------------------------
(* C10: any batch after the first starts no sooner than                    *)
(* delayBetweenBatches after the batch before it has settled.              *)
C10_DelayBetweenAnyTwoBatches ==
  \A e \in 2..Len(batchLog) :
    /\ batchLog[e - 1].settled >= 0
    /\ batchLog[e].start >= batchLog[e - 1].settled + delayBetweenBatches

----------------------------------------------------------------------------
(* C9: once a burst of BurstJobs requests to an idle queue has been        *)
(* processed, the batches were the first three, the next three and the     *)
(* last one of the requests, each batch after the first starting at least  *)
(* delayBetweenBatches after the one before it settled.                    *)
C9_BurstOfSevenInBatches ==
  (Len(jobs) = BurstJobs /\ \A j \in JobIds : Settled(jobs[j])) =>
     /\ Len(batchLog) = 3
     /\ batchLog[1].jobs = <<1, 2, 3>>
     /\ batchLog[2].jobs = <<4, 5, 6>>
     /\ batchLog[3].jobs = <<7>>
     /\ \A e \in 2..3 :
          batchLog[e].start >= batchLog[e - 1].settled + delayBetweenBatches

----------------------------------------------------------------------------
(* C2: of two requests for the same key, the second started within         *)
(* defaultTTL of the start of the first and the first having returned a    *)
(* record, the second issues no upstream call and returns the same record. *)
(* (SpecQueue has no cache delete or clear.)                               *)
C2_CacheIdempotence ==
  \A i, j \in JobIds :
    ( /\ i < j
      /\ CacheKey(jobs[i].username) = CacheKey(jobs[j].username)
      /\ Started(jobs[j])
      /\ StartOf(j) - StartOf(i) <= defaultTTL
      /\ jobs[i].pc = "resolved" )
    => /\ jobs[j].calls = {}
       /\ jobs[j].pc = "resolved"
       /\ jobs[j].end = jobs[i].end

----------------------------------------------------------------------------
(* C3: a request answered from the cache found an entry whose expiry the   *)
(* clock had not passed and is answered with the stored value; a request   *)
(* that finds an entry whose expiry the clock has passed leaves the entry  *)
(* removed and issues the identity lookup; and every entry written has     *)
(* expiry = time of the write + defaultTTL.                                *)
StartsNow(j) ==
  /\ (j > Len(jobs) \/ jobs[j].pc = "queued")
  /\ jobs'[j].pc # "queued"

C3_Step ==
  /\ \A j \in 1..Len(jobs') :
       StartsNow(j) =>
         LET k == CacheKey(jobs'[j].username)
         IN  /\ jobs'[j].pc = "resolved" =>
                  /\ k \in DOMAIN cache
                  /\ now <= cache[k].expiry
                  /\ jobs'[j].end = Returns(cache[k].value)
             /\ (k \in DOMAIN cache /\ now > cache[k].expiry) =>
                  /\ k \notin DOMAIN cache'
                  /\ jobs'[j].pc = "lookup"
                  /\ "lookup" \in jobs'[j].calls
  /\ \A k \in DOMAIN cache' :
       (k \notin DOMAIN cache \/ cache'[k] # cache[k]) =>
          cache'[k].expiry = now + defaultTTL

C3_CacheExpiry == [][C3_Step]_vars

(* A request found an expired entry and went upstream again *)
C3_Witness ==
  \E j \in JobIds : jobs[j].got = "expired" /\ "lookup" \in jobs[j].calls

----------------------------------------------------------------------------
(* What the responses a request received deliver, read off the payloads *)

Enrichments ==
  {"followers", "followings", "friends", "groups", "avatar", "history", "presence"}

ResponseOf(job, e) ==
  CASE e = "followers" -> job.g1[2]
    [] e = "followings" -> job.g1[3]
    [] e = "friends" -> job.g2[1]
    [] e = "groups" -> job.g2[2]
    [] e = "avatar" -> job.g2[3]
    [] e = "history" -> job.g2[4]
    [] e = "presence" -> job.g2[5]

FieldOf(e) ==
  CASE e = "groups" -> "groups_count"
    [] e = "history" -> "previous_usernames"
    [] e = "presence" -> "online_status"
    [] OTHER -> e

Fallback(e) ==
  CASE e = "avatar" -> Str("https://via.placeholder.com/150")
    [] e = "history" -> Arr(<< >>)
    [] e = "presence" -> Str("Unknown")
    [] OTHER -> Num(0)

Body(res) == res.value.o.data

Has(v, f) == f \in Fields(v)

(* The payload has the field or list the call is made for *)
ExpectedShape(e, res) ==
  /\ res.status = "fulfilled"
  /\ CASE e \in {"followers", "followings", "friends"} ->
            Has(Body(res), "count") /\ Body(res).o.count.t = "number"
       [] e \in {"groups", "avatar", "history"} ->
            Has(Body(res), "data") /\ Body(res).o.data.t = "array"
       [] e = "presence" ->
            Has(Body(res), "userPresences") /\ Body(res).o.userPresences.t = "array"

PresenceTable(code) ==
  CASE code = 0 -> "Offline" [] code = 1 -> "Online" [] code = 2 -> "In Game"
    [] code = 3 -> "In Studio" [] OTHER -> "Unknown"

(* The value a payload of the expected shape delivers *)
Delivered(e, res) ==
  CASE e \in {"followers", "followings", "friends"} -> Body(res).o.count
    [] e = "groups" -> Num(Len(Body(res).o.data.a))
    [] e = "avatar" ->
         LET list == Body(res).o.data.a
         IN  IF Len(list) > 0 /\ Has(list[1], "imageUrl") THEN list[1].o.imageUrl
             ELSE Str("https://via.placeholder.com/150")
    [] e = "history" ->
         LET list == Body(res).o.data.a
         IN  Arr([i \in 1..Len(list) |-> list[i].o.name])
    [] e = "presence" ->
         LET list == Body(res).o.userPresences.a
         IN  IF Len(list) > 0 /\ Has(list[1], "userPresenceType")
             THEN Str(PresenceTable(list[1].o.userPresenceType.n))
             ELSE Str("Unknown")

(* The request has run to its end past the second group of calls *)
Aggregated(job) == Settled(job) /\ job.g2 # << >>

Record(job) == job.end.value.o

----------------------------------------------------------------------------
(* C4: a request whose detailed-profile call is rejected ends in an error  *)
(* and returns no record.                                                  *)
C4_ProfileCallIsHardDependency ==
  \A j \in JobIds :
    (Aggregated(jobs[j]) /\ jobs[j].g1[1].status = "rejected") =>
       jobs[j].pc = "rejected" /\ jobs[j].http # 200

----------------------------------------------------------------------------
(* C5: when exactly one enrichment call is rejected and the detailed-      *)
(* profile call and every other enrichment call deliver a payload of the   *)
(* expected shape, the request returns a record in which that field holds  *)
(* its fallback and every other enrichment field the delivered value.      *)
OnlyFails(job, e) ==
  /\ ResponseOf(job, e).status = "rejected"
  /\ job.g1[1].status = "fulfilled"
  /\ \A o \in Enrichments \ {e} : ExpectedShape(o, ResponseOf(job, o))

C5_PartialFailureIndependence ==
  \A j \in JobIds : Aggregated(jobs[j]) =>
    \A e \in Enrichments : OnlyFails(jobs[j], e) =>
       /\ jobs[j].pc = "resolved"
       /\ jobs[j].http = 200
       /\ Record(jobs[j])[FieldOf(e)] = Fallback(e)
       /\ \A o \in Enrichments \ {e} :
            Record(jobs[j])[FieldOf(o)] = Delivered(o, ResponseOf(jobs[j], o))

(* Only the avatar call failed and the request has returned its record *)
C5_Witness ==
  \E j \in JobIds :
    /\ Aggregated(jobs[j])
    /\ OnlyFails(jobs[j], "avatar")
    /\ jobs[j].pc = "resolved"
    /\ Record(jobs[j]).followers = Num(5)

----------------------------------------------------------------------------
(* C6: a fulfilled enrichment call whose payload lacks the expected field  *)
(* or list never makes the request fail, and its field holds the fallback. *)
C6_UnexpectedShapeFallback ==
  \A j \in JobIds : Aggregated(jobs[j]) =>
    \A e \in Enrichments :
      LET res == ResponseOf(jobs[j], e)
      IN  (res.status = "fulfilled" /\ ~ExpectedShape(e, res)) =>
             /\ jobs[j].pc = "resolved"
             /\ Record(jobs[j])[FieldOf(e)] = Fallback(e)

----------------------------------------------------------------------------
(* C7: every record returned by a request whose identity lookup succeeded  *)
(* has every declared field, none undefined or null, with numeric counts,  *)
(* a list of previous usernames and status fields within their             *)
(* enumerations.                                                           *)
Defined(v) == v.t \notin {"undefined", "null", "TypeError"}

C7_FullyPopulatedRecord ==
  \A j \in JobIds : (Aggregated(jobs[j]) /\ jobs[j].pc = "resolved") =>
    /\ DOMAIN Record(jobs[j]) = ResultFieldNames
    /\ \A f \in ResultFieldNames : Defined(Record(jobs[j])[f])
    /\ \A f \in {"followers", "followings", "friends", "groups_count", "age_days"} :
         Record(jobs[j])[f].t = "number"
    /\ Record(jobs[j]).previous_usernames.t = "array"
    /\ Record(jobs[j]).online_status \in
         {Str("Offline"), Str("Online"), Str("In Game"), Str("In Studio"), Str("Unknown")}
    /\ Record(jobs[j]).active_status \in {Str("Banned"), Str("Active")}

----------------------------------------------------------------------------
(* C8: a request whose identity lookup is rejected ends with the error of  *)
(* the lookup, one whose lookup finds no match ends with "User not found"  *)
(* (status 404), and in both cases no other upstream call was issued.      *)
NoMatch(res) ==
  /\ res.status = "fulfilled"
  /\ Has(Body(res), "data")
  /\ Body(res).o.data = Arr(<< >>)

C8_IdentityIsHardDependency ==
  \A j \in JobIds : jobs[j].lookup # << >> =>
    LET res == jobs[j].lookup[1]
    IN  /\ res.status = "rejected" =>
             /\ jobs[j].pc = "rejected"
             /\ jobs[j].end = Throws(res.reason)
             /\ jobs[j].calls = {"lookup"}
        /\ NoMatch(res) =>
             /\ jobs[j].pc = "rejected"
             /\ jobs[j].end.error.message = "User not found"
             /\ jobs[j].http = 404
             /\ jobs[j].calls = {"lookup"}

(* A request ended with "User not found" after a lookup without a match *)
C8_Witness ==
  \E j \in JobIds :
    /\ jobs[j].lookup # << >>
    /\ NoMatch(jobs[j].lookup[1])
    /\ jobs[j].http = 404
    /\ jobs[j].calls = {"lookup"}

----------------------------------------------------------------------------
(* C11: a step in which a request throws rejects that request with an      *)
(* error and changes no other request, started or queued; nothing leaves   *)
(* the queue, and while requests are queued the worker loop stays active.  *)
(* Every settled request holds the outcome of its own responses.           *)
OwnOutcome(job) ==
  IF job.calls = {} THEN job.pc = "resolved"
  ELSE IF job.g2 # << >>
  THEN job.end = BuildResult(job.username, job.basicUser, job.g1, job.g2,
                             IF job.pc = "resolved"
                             THEN job.end.value.o.last_updated.iso ELSE 0)
  ELSE job.end = ResolveIdentity(job.lookup[1])

C11_Step ==
  /\ \A j \in JobIds :
       (Executing(jobs[j]) /\ jobs'[j].pc = "rejected") =>
          /\ jobs'[j].end.kind = "throw"
          /\ Len(jobs') = Len(jobs)
          /\ \A k \in JobIds \ {j} : jobs'[k] = jobs[k]
          /\ queue' = queue
          /\ Len(queue) > 0 => (processing' /\ Len(loops') = 1)
  /\ \A j \in 1..Len(jobs') : Settled(jobs'[j]) => OwnOutcome(jobs'[j])

C11_JobFailureIsolation == [][C11_Step]_vars

(* A request was rejected while a request of the same batch returned its   *)
(* own record and a request of a later batch was answered too              *)
C11_Witness ==
  \E i, k, m \in JobIds :
    /\ jobs[i].pc = "rejected"
    /\ jobs[k].pc = "resolved" /\ jobs[k].calls # {}
    /\ BatchOf(i) = BatchOf(k)
    /\ jobs[m].pc = "resolved"
    /\ BatchOf(m) > BatchOf(i)

----------------------------------------------------------------------------
(* C12: requests start in the order they were added: of two requests, the  *)
(* later added one has started only if the earlier one has, and then the   *)
(* earlier one is in the same or an earlier batch, and within a batch the  *)
(* requests stand in the order they were added.                            *)
C12_FifoAdmission ==
  /\ \A i, j \in JobIds :
       (i < j /\ Started(jobs[j])) =>
          /\ Started(jobs[i])
          /\ BatchOf(i) <= BatchOf(j)
          /\ StartOf(i) <= StartOf(j)
  /\ \A e \in 1..Len(batchLog) :
       \A a, b \in 1..Len(batchLog[e].jobs) :
          a < b => batchLog[e].jobs[a] < batchLog[e].jobs[b]

(* Two requests were taken in different batches, a third with the second *)
C12_Witness ==
  \E i, j, k \in JobIds :
    /\ i < j /\ j < k
    /\ Started(jobs[k])
    /\ BatchOf(i) < BatchOf(j)
    /\ BatchOf(j) = BatchOf(k)

----------------------------------------------------------------------------
(* C13: the seven enrichment calls of a request are issued together: when  *)
(* one of them has been issued all of them have, so that none is issued    *)
(* after another has settled; the record is built after all have settled.  *)
C13_EnrichmentsDispatchedTogether ==
  \A j \in JobIds :
    /\ (jobs[j].calls \cap Enrichments # {}) => (Enrichments \subseteq jobs[j].calls)
    /\ \A e \in Group2Calls :
         e \in jobs[j].calls => jobs[j].g1 = << >>
    /\ Aggregated(jobs[j]) => (jobs[j].g1 # << >> /\ jobs[j].g2 # << >>)

----------------------------------------------------------------------------
(* C14: a request that arrives while the cache holds an unexpired entry of *)
(* its key is answered with that entry in the step of its arrival: it does *)
(* not wait in the queue for a running batch or for the delay.             *)
C14_Step ==
  Len(jobs') = Len(jobs) + 1 =>
    LET j == Len(jobs')
        k == CacheKey(jobs'[j].username)
    IN  (k \in DOMAIN cache /\ ~IsExpired(cache[k], now)) =>
          /\ jobs'[j].pc = "resolved"
          /\ jobs'[j].end = Returns(cache[k].value)
          /\ j \notin SeqRange(queue')

C14_CacheBeforeQueue == [][C14_Step]_vars

----------------------------------------------------------------------------
(* C15: the online status is Offline, Online, In Game, In Studio for the   *)
(* presence codes 0, 1, 2, 3 and Unknown for every other integer code, for *)
(* an entry without a code, for an empty list of presences and for a       *)
(* rejected presence call; the mapping never throws and gives no other     *)
(* value.                                                                  *)
PresenceExpected(res) ==
  IF res.status = "rejected" THEN "Unknown"
  ELSE LET list == Body(res).o.userPresences.a
       IN  IF list = << >> THEN "Unknown"
           ELSE IF ~Has(list[1], "userPresenceType") THEN "Unknown"
           ELSE PresenceTable(list[1].o.userPresenceType.n)

----------------------------------------------------------------------------
(* C16: the record of an account created d whole days ago has age_days d   *)
(* and an age text whose day component is what is left of d after the      *)
(* whole years of 365 days and the whole months of 30 days are removed;    *)
(* for 400 days the text is "1 years, 1 months, 5 days".                   *)
AgeText(d) ==
  LET years == d \div 365
      rest == d - 365 * years
      months == rest \div 30
      days == rest - 30 * months
  IN  IF years > 0
      THEN ToString(years) \o " years, " \o ToString(months) \o " months, "
             \o ToString(days) \o " days"
      ELSE IF months > 0 THEN ToString(months) \o " months, " \o ToString(days) \o " days"
      ELSE ToString(days) \o " days"

C16_AgeComputation ==
  \A j \in JobIds :
    (jobs[j].pc = "resolved" /\ jobs[j].g1 # << >>
       /\ jobs[j].g1[1].status = "fulfilled" /\ Has(Body(jobs[j].g1[1]), "created")) =>
      LET created == Body(jobs[j].g1[1]).o.created.iso
          at == Record(jobs[j]).last_updated.iso
          d == (at - created) \div msPerDay
      IN  /\ Record(jobs[j]).age_days = Num(d)
          /\ Record(jobs[j]).account_age = Str(AgeText(d))
          /\ d = 400 => Record(jobs[j]).account_age = Str("1 years, 1 months, 5 days")

----------------------------------------------------------------------------
(* C17: while requests are queued a worker loop is active; a request is    *)
(* taken from the queue at most once and a settled request never changes;  *)
(* and when every call settles and every timer fires, every request that   *)
(* was added is eventually settled.                                        *)
Occurrences(seq, x) == Cardinality({i \in 1..Len(seq) : seq[i] = x})

C17_State ==
  /\ Len(queue) > 0 => (processing /\ Len(loops) = 1)
  /\ \A j \in JobIds :
       /\ Occurrences(Flatten(batchLog) \o queue, j) = 1
       /\ Settled(jobs[j]) => Occurrences(Flatten(batchLog), j) = 1

C17_Step == \A j \in JobIds : Settled(jobs[j]) => jobs'[j] = jobs[j]

C17_NoLostWakeup ==
  /\ []C17_State
  /\ [][C17_Step]_vars
  /\ \A j \in 1..LiveJobs :
       (Len(jobs) >= j) ~> (Len(jobs) >= j /\ Settled(jobs[j]))

(* A request that arrived while the loop was busy has been settled and the *)
(* loop has ended with nothing left in the queue                           *)
C17_Witness ==
  /\ \E j \in JobIds : Settled(jobs[j]) /\ BatchOf(j) > 1
  /\ Len(jobs) = LiveJobs
  /\ \A j \in JobIds : Settled(jobs[j])
  /\ ~processing /\ queue = << >> /\ loops = << >>

----------------------------------------------------------------------------
(* C18: a request that was in flight when its key was deleted or cleared   *)
(* never puts an entry of that key into the cache: the step in which it    *)
(* ends leaves the key as it was.                                          *)
C18_Step ==
  \A j \in JobIds :
    (Executing(jobs[j]) /\ jobs[j].purged /\ Settled(jobs'[j])) =>
       LET k == CacheKey(jobs[j].username)
       IN  IF k \in DOMAIN cache
           THEN k \in DOMAIN cache' /\ cache'[k] = cache[k]
           ELSE k \notin DOMAIN cache'

C18_InvalidationNotUndone == [][C18_Step]_vars

----------------------------------------------------------------------------
(* C19: a record built with a fallback for a call that was rejected is     *)
(* returned but not stored: the step that returns it leaves the cache      *)
(* entry of its key as it was.                                             *)
HasRejected(job) ==
  \/ job.g1[1].status = "rejected"
  \/ \E e \in Enrichments : ResponseOf(job, e).status = "rejected"

C19_Step ==
  \A j \in JobIds :
    (jobs[j].pc = "group2" /\ jobs'[j].pc = "resolved" /\ HasRejected(jobs'[j])) =>
       LET k == CacheKey(jobs[j].username)
       IN  IF k \in DOMAIN cache
           THEN k \in DOMAIN cache' /\ cache'[k] = cache[k]
           ELSE k \notin DOMAIN cache'

C19_OnlyCompleteRecordsCached == [][C19_Step]_vars

----------------------------------------------------------------------------
(* C20: a request that ends in an error (the identity lookup fails or      *)
(* finds no match, or building the record throws) leaves the whole cache   *)
(* as it was, and a request that starts while its key has no entry goes    *)
(* upstream with the identity lookup.                                      *)
C20_Step ==
  /\ \A j \in JobIds :
       (Executing(jobs[j]) /\ jobs'[j].pc = "rejected") => cache' = cache
  /\ \A j \in 1..Len(jobs') :
       (StartsNow(j) /\ CacheKey(jobs'[j].username) \notin DOMAIN cache) =>
          /\ jobs'[j].pc = "lookup"
          /\ "lookup" \in jobs'[j].calls

C20_NoCachingOfErrors == [][C20_Step]_vars

(* A request has ended in an error while the other key is cached: its own  *)
(* key has no entry and the entry of the other key is still there          *)
C20_Witness ==
  \E i, j \in JobIds :
    /\ i < j
    /\ jobs[i].pc = "resolved" /\ jobs[i].calls # {}
    /\ jobs[j].pc = "rejected" /\ "lookup" \in jobs[j].calls
    /\ CacheKey(jobs[i].username) \in DOMAIN cache
    /\ cache[CacheKey(jobs[i].username)].value.o = Record(jobs[i])
    /\ CacheKey(jobs[j].username) \notin DOMAIN cache

====
